---- MODULE Spec2Model ----
(***************************************************************************)
(* Model of the minimal Python A2A agent                                   *)
(* (agents/python_agents/minimal_a2a_agent/app/main.py): the agent card    *)
(* endpoints, the POST /api/a2a handler with its validation and dispatch,  *)
(* and the two async generators that produce streamed frames.              *)
(***************************************************************************)
EXTENDS Integers, Sequences, FiniteSets, TLC

VARIABLES
    AGENT_CARD,     \* the module-level card dict
    log,            \* records written through `logger`, oldest first
    sessions,       \* one entry per StreamingResponse started, oldest first
    last,           \* the most recent request and the response it received
    nreq,           \* number of HTTP requests served so far
    events_in       \* payloads of the agent_event envelopes accepted so far

vars == <<AGENT_CARD, log, sessions, last, nreq, events_in>>

(***************************************************************************)
(* Bounds of the model.                                                    *)
(***************************************************************************)
\* HTTP requests served in one behaviour of Spec
MaxRequests == 2
\* HTTP requests served in one behaviour of SpecDispatch
MaxDispatch == 1

(***************************************************************************)
(* JSON values, as json.loads produces them.  Each kind has its own field  *)
(* so that values of different kinds are different records.                *)
(***************************************************************************)
JNull == [k |-> "null"]
JBool(b) == [k |-> "bool", b |-> b]
JNum(n) == [k |-> "num", n |-> n]
JStr(s) == [k |-> "str", s |-> s]
JList(l) == [k |-> "list", l |-> l]
JObj(o) == [k |-> "obj", o |-> o]

\* a dict with no key
EmptyDict == <<>>

\* An optional field of a dict literal.
Absent == [has |-> FALSE]
Some(v) == [has |-> TRUE, v |-> v]
Field(name, opt) == IF opt.has THEN name :> opt.v ELSE EmptyDict

(***************************************************************************)
(* Python operations the handler applies to the parsed body.               *)
(***************************************************************************)
\* bool(v): the truth value Python gives a JSON value
truthy(v) ==
    CASE v.k = "null" -> FALSE
      [] v.k = "bool" -> v.b
      [] v.k = "num"  -> v.n # 0
      [] v.k = "str"  -> v.s # ""
      [] v.k = "list" -> v.l # <<>>
      [] v.k = "obj"  -> DOMAIN v.o # {}

\* isinstance(v, str)
isinstance_str(v) == v.k = "str"

\* hasattr(v, "get"): only a dict has the method .get
has_get(v) == v.k = "obj"

\* Variant of dict_get: .get(key) without a default gives None.
dict_get_without_default(v, key, default) ==
    IF key \in DOMAIN v.o THEN v.o[key] ELSE JNull

\* v.get(key, default) for a dict v
dict_get(v, key, default) ==
    IF key \in DOMAIN v.o THEN v.o[key] ELSE default

\* sub occurs in str at some position (str.__contains__)
is_substring(sub, str) ==
    \E j \in 0..(Len(str) - Len(sub)) : SubSeq(str, j + 1, j + Len(sub)) = sub

\* `key in v`: defined for dict (a key), list (an element) and str (a
\* substring).  None, numbers and booleans raise TypeError.
supports_in(v) == v.k \in {"obj", "list", "str"}
py_in(key, v) ==
    CASE v.k = "obj"  -> key \in DOMAIN v.o
      [] v.k = "list" -> \E j \in 1..Len(v.l) : v.l[j] = JStr(key)
      [] v.k = "str"  -> is_substring(key, v.s)

(***************************************************************************)
(* request.json(): the request body is either bytes that json.loads        *)
(* rejects (kept as they are) or the text of a JSON value.                 *)
(***************************************************************************)
Garbage(bytes) == [k |-> "garbage", bytes |-> bytes]
JsonText(v) == [k |-> "json", v |-> v]

\* Variant of request_json: bytes that are not JSON are read as an empty dict.
request_json_lenient(raw) ==
    IF raw.k = "json" THEN [ok |-> TRUE, v |-> raw.v]
    ELSE [ok |-> TRUE, v |-> JObj(EmptyDict)]

request_json(raw) ==
    IF raw.k = "json" THEN [ok |-> TRUE, v |-> raw.v]
    ELSE [ok |-> FALSE, v |-> JNull]

(***************************************************************************)
(* The agent card and the card endpoints.                                  *)
(***************************************************************************)
AgentCardLiteral ==
    JObj([id |-> JStr("pyagent1"),
          name |-> JStr("Python Agent"),
          version |-> JStr("0.1.0"),
          description |-> JStr("Minimal Python A2A agent"),
          capabilities |-> JList(<<JStr("task_request"), JStr("agent_discovery")>>),
          endpoints |-> JObj([a2a |-> JStr("/api/a2a"),
                              agent_card |-> JStr("/api/agent_card")]),
          authentication |-> JNull])

(***************************************************************************)
(* Responses.  `start` names the generator a StreamingResponse wraps.      *)
(***************************************************************************)
JSONResponse(content, status_code) ==
    [status |-> status_code, kind |-> "json", body |-> content,
     exc |-> "", start |-> "none"]

StreamingResponse(gen) ==
    [status |-> 200, kind |-> "stream", body |-> JNull,
     exc |-> "", start |-> gen]

\* An exception that leaves the handler: the server answers 500.
Unhandled(exc) ==
    [status |-> 500, kind |-> "unhandled", body |-> JStr("Internal Server Error"),
     exc |-> exc, start |-> "none"]

LogRecord(level, msg, data) == [level |-> level, msg |-> msg, data |-> data]

InvalidJsonBody ==
    JObj([status |-> JStr("error"), error |-> JStr("Invalid JSON payload")])

MissingTypeBody ==
    JObj([status |-> JStr("error"), error |-> JStr("Missing or invalid 'type' field")])

\* lines 54-58: log the body and answer 400
missing_type(body) ==
    [resp |-> JSONResponse(MissingTypeBody, 400),
     logs |-> <<LogRecord("error", "Missing or invalid 'type' field in message", body)>>]

raise(exc) == [resp |-> Unhandled(exc), logs |-> <<>>]

(***************************************************************************)
(* Dispatch on the message type, lines 60-84.  `body` is a dict whose      *)
(* "type" is a str.                                                        *)
(***************************************************************************)
\* line 64, right of `and`: payload.get("stream", False) as a condition
wants_stream(payload) == truthy(dict_get(payload, "stream", JBool(FALSE)))

\* Variant of agent_event_response: the payload is logged twice.
agent_event_response_logs_twice(payload) ==
    [resp |-> JSONResponse(JObj([status |-> JStr("ok"),
                                 type |-> JStr("agent_event"),
                                 event |-> payload]), 200),
     logs |-> <<LogRecord("info", "[agent_event]", payload),
                LogRecord("info", "[agent_event]", payload)>>]

\* lines 80-81: log the payload and acknowledge
agent_event_response(payload) ==
    [resp |-> JSONResponse(JObj([status |-> JStr("ok"),
                                 type |-> JStr("agent_event"),
                                 event |-> payload]), 200),
     logs |-> <<LogRecord("info", "[agent_event]", payload)>>]

\* Variant of echo_response: only the payload is echoed.
echo_response_payload_only(msg_type, body) ==
    [resp |-> JSONResponse(JObj([status |-> JStr("ok"),
                                 type |-> JStr(msg_type),
                                 echo |-> dict_get(body, "payload", JObj(EmptyDict))]), 200),
     logs |-> <<>>]

\* line 84: echo the body
echo_response(msg_type, body) ==
    [resp |-> JSONResponse(JObj([status |-> JStr("ok"),
                                 type |-> JStr(msg_type),
                                 echo |-> body]), 200),
     logs |-> <<>>]

\* Variant of a2a_dispatch: task_chunk streams only when payload.stream asks
\* for it, as task_request does.
a2a_dispatch_chunk_honours_stream(body) ==
    LET msg_type == body.o["type"].s
        payload  == dict_get(body, "payload", JObj(EmptyDict))
    IN  IF msg_type = "task_request" /\ ~has_get(payload)
        THEN raise("AttributeError")
        ELSE IF msg_type = "task_request" /\ wants_stream(payload)
        THEN [resp |-> StreamingResponse("stream_task_progress"), logs |-> <<>>]
        ELSE IF msg_type = "task_chunk" /\ has_get(payload) /\ wants_stream(payload)
        THEN [resp |-> StreamingResponse("chunk_stream"), logs |-> <<>>]
        ELSE IF msg_type = "agent_event"
        THEN agent_event_response(payload)
        ELSE echo_response(msg_type, body)

a2a_dispatch(body) ==
    LET msg_type == body.o["type"].s
        payload  == dict_get(body, "payload", JObj(EmptyDict))
    IN  IF msg_type = "task_request" /\ ~has_get(payload)
        THEN raise("AttributeError")
        ELSE IF msg_type = "task_request" /\ wants_stream(payload)
        THEN [resp |-> StreamingResponse("stream_task_progress"), logs |-> <<>>]
        ELSE IF msg_type = "task_chunk"
        THEN [resp |-> StreamingResponse("chunk_stream"), logs |-> <<>>]
        ELSE IF msg_type = "agent_event"
        THEN agent_event_response(payload)
        ELSE echo_response(msg_type, body)

(***************************************************************************)
(* The whole handler as a function of the request body, lines 43-84:       *)
(* the response and the records it logs.                                   *)
(***************************************************************************)
\* Variant of a2a_response: the payload is read before the type is checked.
a2a_response_payload_first(raw) ==
    LET parsed == request_json(raw)
        body   == parsed.v
    IN  IF ~parsed.ok
        THEN [resp |-> JSONResponse(InvalidJsonBody, 400),
              logs |-> <<LogRecord("error", "Failed to parse JSON", JNull)>>]
        ELSE IF ~supports_in(body) THEN raise("TypeError")
        ELSE IF has_get(body) /\ ~has_get(dict_get(body, "payload", JObj(EmptyDict)))
        THEN raise("AttributeError")
        ELSE IF ~py_in("type", body) THEN missing_type(body)
        ELSE IF ~has_get(body) THEN raise("AttributeError")
        ELSE IF ~isinstance_str(dict_get(body, "type", JNull)) THEN missing_type(body)
        ELSE a2a_dispatch(body)

a2a_response(raw) ==
    LET parsed == request_json(raw)
        body   == parsed.v
    IN  IF ~parsed.ok
        THEN [resp |-> JSONResponse(InvalidJsonBody, 400),
              logs |-> <<LogRecord("error", "Failed to parse JSON", JNull)>>]
        ELSE IF ~supports_in(body) THEN raise("TypeError")
        ELSE IF ~py_in("type", body) THEN missing_type(body)
        ELSE IF ~has_get(body) THEN raise("AttributeError")
        ELSE IF ~isinstance_str(dict_get(body, "type", JNull)) THEN missing_type(body)
        ELSE a2a_dispatch(body)

(***************************************************************************)
(* Frames.  A frame is one line of the response body: the object written,  *)
(* the quoting of its text and whether a newline ends it.  An f-string     *)
(* formats a dict with repr (single-quoted); the result frame of the       *)
(* progress stream is a bytes literal (double-quoted).                     *)
(***************************************************************************)
format_dict_line(d) == [quote |-> "single", obj |-> d, newline |-> TRUE]
bytes_literal_line(d) == [quote |-> "double", obj |-> d, newline |-> TRUE]

\* range(5) of stream_task_progress
ProgressFrames == 5
\* range(3) of chunk_stream
ChunkFrames == 3

\* Variant of progress_frame: the loop index counted from 1.
progress_frame_from_one(i) ==
    format_dict_line(JObj([type |-> JStr("task_progress"),
                           progress |-> JNum((i + 1) * 20)]))

progress_frame(i) ==
    format_dict_line(JObj([type |-> JStr("task_progress"), progress |-> JNum(i * 20)]))

progress_result ==
    bytes_literal_line(JObj([type |-> JStr("result"),
                             payload |-> JObj([result |-> JStr("done")])]))

chunk_frame(i) ==
    format_dict_line(JObj([type |-> JStr("task_chunk"),
                           chunk |-> JStr("partial_" \o ToString(i))]))

chunk_result ==
    format_dict_line(JObj([type |-> JStr("result"),
                           payload |-> JObj([result |-> JStr("final from chunk")])]))

(***************************************************************************)
(* The async generators as coroutines.  g = [pc, i] is where the generator *)
(* is suspended; the operator resumes it and runs it to its next           *)
(* suspension, giving the new position and the frame it yields, if any.    *)
(*   new           created, not yet started                                *)
(*   yield         suspended at the yield inside the loop                  *)
(*   sleep         suspended in await asyncio.sleep                        *)
(*   yield_result  suspended at the last yield                             *)
(*   end           returned                                                *)
(***************************************************************************)
\* Variant of stream_task_progress: the result is yielded inside the loop.
stream_task_progress_result_in_loop(g) ==
    CASE g.pc = "new" ->
            [pc |-> "yield", i |-> 0, out |-> <<progress_frame(0)>>]
      [] g.pc = "yield" ->
            [pc |-> "sleep", i |-> g.i, out |-> <<>>]
      [] g.pc = "sleep" ->
            [pc |-> "yield_result", i |-> g.i, out |-> <<progress_result>>]
      [] g.pc = "yield_result" ->
            IF g.i + 1 < ProgressFrames
            THEN [pc |-> "yield", i |-> g.i + 1, out |-> <<progress_frame(g.i + 1)>>]
            ELSE [pc |-> "end", i |-> g.i + 1, out |-> <<>>]

\* Variant of stream_task_progress: no sleep after the last progress frame,
\* the result is yielded as soon as that frame is taken.
stream_task_progress_no_last_sleep(g) ==
    CASE g.pc = "new" ->
            [pc |-> "yield", i |-> 0, out |-> <<progress_frame(0)>>]
      [] g.pc = "yield" ->
            IF g.i + 1 < ProgressFrames
            THEN [pc |-> "sleep", i |-> g.i, out |-> <<>>]
            ELSE [pc |-> "yield_result", i |-> g.i + 1, out |-> <<progress_result>>]
      [] g.pc = "sleep" ->
            [pc |-> "yield", i |-> g.i + 1, out |-> <<progress_frame(g.i + 1)>>]
      [] g.pc = "yield_result" ->
            [pc |-> "end", i |-> g.i, out |-> <<>>]

\* Variant of stream_task_progress: the generator never returns after its
\* result frame.
stream_task_progress_never_returns(g) ==
    CASE g.pc = "new" ->
            [pc |-> "yield", i |-> 0, out |-> <<progress_frame(0)>>]
      [] g.pc = "yield" ->
            [pc |-> "sleep", i |-> g.i, out |-> <<>>]
      [] g.pc = "sleep" ->
            IF g.i + 1 < ProgressFrames
            THEN [pc |-> "yield", i |-> g.i + 1, out |-> <<progress_frame(g.i + 1)>>]
            ELSE [pc |-> "yield_result", i |-> g.i + 1, out |-> <<progress_result>>]
      [] g.pc = "yield_result" ->
            [pc |-> "yield_result", i |-> g.i, out |-> <<>>]

stream_task_progress(g) ==
    CASE g.pc = "new" ->
            [pc |-> "yield", i |-> 0, out |-> <<progress_frame(0)>>]
      [] g.pc = "yield" ->
            [pc |-> "sleep", i |-> g.i, out |-> <<>>]
      [] g.pc = "sleep" ->
            IF g.i + 1 < ProgressFrames
            THEN [pc |-> "yield", i |-> g.i + 1, out |-> <<progress_frame(g.i + 1)>>]
            ELSE [pc |-> "yield_result", i |-> g.i + 1, out |-> <<progress_result>>]
      [] g.pc = "yield_result" ->
            [pc |-> "end", i |-> g.i, out |-> <<>>]

chunk_stream(g) ==
    CASE g.pc = "new" ->
            [pc |-> "yield", i |-> 0, out |-> <<chunk_frame(0)>>]
      [] g.pc = "yield" ->
            [pc |-> "sleep", i |-> g.i, out |-> <<>>]
      [] g.pc = "sleep" ->
            IF g.i + 1 < ChunkFrames
            THEN [pc |-> "yield", i |-> g.i + 1, out |-> <<chunk_frame(g.i + 1)>>]
            ELSE [pc |-> "yield_result", i |-> g.i + 1, out |-> <<chunk_result>>]
      [] g.pc = "yield_result" ->
            [pc |-> "end", i |-> g.i, out |-> <<>>]

\* __anext__ on the generator a session wraps
anext(gen, g) ==
    IF gen = "stream_task_progress" THEN stream_task_progress(g) ELSE chunk_stream(g)

(***************************************************************************)
(* A stream session: the generator, the frames it has produced, the frames *)
(* the transport has accepted, whether its pacing timer is pending and     *)
(* whether the client has disconnected.                                    *)
(***************************************************************************)
NewSession(gen) ==
    [gen |-> gen, pc |-> "new", i |-> 0, produced |-> <<>>, sent |-> <<>>,
     timer |-> FALSE, disconnected |-> FALSE, status |-> "streaming"]

\* the session after its generator was resumed
Resumed(ss) ==
    LET r == anext(ss.gen, [pc |-> ss.pc, i |-> ss.i])
    IN  [ss EXCEPT !.pc = r.pc,
                   !.i = r.i,
                   !.produced = ss.produced \o r.out,
                   !.timer = (r.pc = "sleep"),
                   !.status = IF r.pc = "end" THEN "completed" ELSE ss.status]

NoResponse ==
    [op |-> "none", req |-> JNull, status |-> 0, kind |-> "none",
     body |-> JNull, exc |-> "", sid |-> 0]

Init ==
    /\ AGENT_CARD = AgentCardLiteral
    /\ log = <<>>
    /\ sessions = <<>>
    /\ last = NoResponse
    /\ nreq = 0
    /\ events_in = <<>>

(***************************************************************************)
(* What the envelope of a request is, for the properties below: a request  *)
(* is accepted when its body is a JSON object whose "type" is a string.    *)
(***************************************************************************)
IsEnvelope(raw) ==
    /\ raw.k = "json"
    /\ raw.v.k = "obj"
    /\ "type" \in DOMAIN raw.v.o
    /\ raw.v.o["type"].k = "str"

EnvType(raw) == raw.v.o["type"].s
HasPayload(raw) == "payload" \in DOMAIN raw.v.o
EnvPayload(raw) == IF HasPayload(raw) THEN raw.v.o["payload"] ELSE JObj(EmptyDict)

(***************************************************************************)
(* GET /api/agent_card                                                     *)
(***************************************************************************)
get_agent_card ==
    /\ last' = [op |-> "get_agent_card", req |-> JNull, status |-> 200,
                kind |-> "json", body |-> AGENT_CARD, exc |-> "", sid |-> 0]
    /\ nreq' = nreq + 1
    /\ UNCHANGED <<AGENT_CARD, log, sessions, events_in>>

\* Variant of register_agent_card: the submitted card replaces the agent's own.
register_agent_card_persists(card) ==
    /\ AGENT_CARD' = card
    /\ last' = [op |-> "register_agent_card", req |-> card, status |-> 200,
                kind |-> "json",
                body |-> JObj([status |-> JStr("ok"), card |-> card]),
                exc |-> "", sid |-> 0]
    /\ nreq' = nreq + 1
    /\ UNCHANGED <<log, sessions, events_in>>

(***************************************************************************)
(* POST /api/agent_card with a dict body                                   *)
(***************************************************************************)
register_agent_card(card) ==
    /\ last' = [op |-> "register_agent_card", req |-> card, status |-> 200,
                kind |-> "json",
                body |-> JObj([status |-> JStr("ok"), card |-> card]),
                exc |-> "", sid |-> 0]
    /\ nreq' = nreq + 1
    /\ UNCHANGED <<AGENT_CARD, log, sessions, events_in>>

(***************************************************************************)
(* POST /api/a2a                                                           *)
(***************************************************************************)
a2a_endpoint(raw) ==
    LET r == a2a_response(raw)
        streams == r.resp.kind = "stream"
    IN  /\ log' = log \o r.logs
        /\ sessions' = IF streams THEN Append(sessions, NewSession(r.resp.start))
                       ELSE sessions
        /\ last' = [op |-> "a2a", req |-> raw, status |-> r.resp.status,
                    kind |-> r.resp.kind, body |-> r.resp.body, exc |-> r.resp.exc,
                    sid |-> IF streams THEN Len(sessions) + 1 ELSE 0]
        /\ nreq' = nreq + 1
        /\ events_in' = IF IsEnvelope(raw) /\ EnvType(raw) = "agent_event"
                        THEN Append(events_in, EnvPayload(raw))
                        ELSE events_in
        /\ UNCHANGED AGENT_CARD

(***************************************************************************)
(* The steps of a streaming response.                                      *)
(***************************************************************************)
\* the response starts iterating the generator: it runs to its first yield
stream_start(s) ==
    /\ sessions[s].status = "streaming"
    /\ sessions[s].pc = "new"
    /\ sessions' = [sessions EXCEPT ![s] = Resumed(sessions[s])]
    /\ UNCHANGED <<AGENT_CARD, log, last, nreq, events_in>>

\* the frame in flight is handed to the transport.  A connected client takes
\* it: the generator is resumed and runs into its sleep, or returns after
\* the last frame.  A client that has gone takes nothing: the send fails and
\* the response ends with the generator left at its yield.
transport_accept(s) ==
    /\ sessions[s].status = "streaming"
    /\ Len(sessions[s].sent) < Len(sessions[s].produced)
    /\ LET ss == sessions[s]
           acc == [ss EXCEPT !.sent = Append(ss.sent, ss.produced[Len(ss.sent) + 1])]
       IN  sessions' = [sessions EXCEPT ![s] =
                            IF ss.disconnected
                            THEN [ss EXCEPT !.status = "cancelled"]
                            ELSE Resumed(acc)]
    /\ UNCHANGED <<AGENT_CARD, log, last, nreq, events_in>>

\* asyncio.sleep completes: the generator runs to its next yield
timer_fire(s) ==
    /\ sessions[s].status = "streaming"
    /\ sessions[s].pc = "sleep"
    /\ sessions[s].timer
    /\ sessions' = [sessions EXCEPT ![s] = Resumed(sessions[s])]
    /\ UNCHANGED <<AGENT_CARD, log, last, nreq, events_in>>

\* Variant of client_disconnect: a disconnect cancels every open stream.
client_disconnect_cancels_all(s) ==
    /\ sessions[s].status = "streaming"
    /\ sessions' = [t \in 1..Len(sessions) |->
                        IF sessions[t].status = "streaming"
                        THEN [sessions[t] EXCEPT !.disconnected = TRUE,
                                                 !.status = "cancelled",
                                                 !.timer = FALSE]
                        ELSE sessions[t]]
    /\ UNCHANGED <<AGENT_CARD, log, last, nreq, events_in>>

\* The client of a streaming response goes away.  Neither generator nor the
\* handler tests for it (no request.is_disconnected(), no try/finally, no
\* CancelledError handling), so the step changes nothing the code can see:
\* what becomes of the generator is left to the server that iterates it.
client_disconnect(s) ==
    /\ sessions[s].status = "streaming"
    /\ ~sessions[s].disconnected
    /\ sessions' = [sessions EXCEPT ![s] = [@ EXCEPT !.disconnected = TRUE]]
    /\ UNCHANGED <<AGENT_CARD, log, last, nreq, events_in>>

\* The server that iterates the generator of StreamingResponse learns of the
\* disconnect while the generator is suspended and cancels the response: a
\* pending sleep is cancelled with it.  A server may do this at any moment
\* after the disconnect, or never before its next send fails (the second
\* case is the disconnected branch of transport_accept).
response_cancelled(s) ==
    /\ sessions[s].status = "streaming"
    /\ sessions[s].disconnected
    /\ sessions' = [sessions EXCEPT ![s] =
                        [@ EXCEPT !.status = "cancelled", !.timer = FALSE]]
    /\ UNCHANGED <<AGENT_CARD, log, last, nreq, events_in>>

(***************************************************************************)
(* Request bodies.                                                         *)
(***************************************************************************)
Addressed == [sender |-> JStr("pyagent1"), recipient |-> JStr("agent1")]

Envelope(t, p, addressed) ==
    JObj(Field("type", t) @@ Field("payload", p)
         @@ (IF addressed THEN Addressed ELSE EmptyDict))

\* the messages of test_a2a_interop.py
A2A_MSG ==
    Envelope(Some(JStr("task_request")),
             Some(JObj([task_id |-> JStr("t1"), stream |-> JBool(TRUE)])), TRUE)
A2A_MSG_no_stream ==
    Envelope(Some(JStr("task_request")),
             Some(JObj([task_id |-> JStr("t1"), stream |-> JBool(FALSE)])), TRUE)
chunk_msg ==
    Envelope(Some(JStr("task_chunk")), Some(JObj([chunk_id |-> JStr("c1")])), TRUE)
event_msg ==
    Envelope(Some(JStr("agent_event")),
             Some(JObj([event_id |-> JStr("e1"), detail |-> JStr("test event")])), TRUE)
invalid_msg1 == Envelope(Absent, Some(JObj(EmptyDict)), TRUE)
invalid_msg2 == Envelope(Some(JNull), Some(JObj(EmptyDict)), TRUE)
invalid_msg3 == Envelope(Some(JNum(123)), Some(JObj(EmptyDict)), TRUE)

\* the requests of Spec: the test messages, a bare streaming task_request, a
\* task_chunk with each value of stream, an agent_event and a ping without
\* payload, and an unparsable body
CoreRequests ==
    {JsonText(m) : m \in
        {A2A_MSG, A2A_MSG_no_stream, chunk_msg, event_msg,
         invalid_msg1, invalid_msg2, invalid_msg3,
         Envelope(Some(JStr("task_request")), Some(JObj([stream |-> JBool(TRUE)])), FALSE),
         Envelope(Some(JStr("task_chunk")), Some(JObj([stream |-> JBool(TRUE)])), FALSE),
         Envelope(Some(JStr("task_chunk")), Some(JObj([stream |-> JBool(FALSE)])), FALSE),
         Envelope(Some(JStr("agent_event")), Absent, FALSE),
         Envelope(Some(JStr("ping")), Absent, FALSE)}}
    \cup {Garbage("")}

\* the values the dispatch properties range over
TypeOpts ==
    {Absent, Some(JNull), Some(JNum(123)), Some(JBool(TRUE)), Some(JStr("")),
     Some(JStr("ping")), Some(JStr("task_request")), Some(JStr("task_chunk")),
     Some(JStr("agent_event"))}

StreamOpts ==
    {Absent, Some(JNull), Some(JBool(TRUE)), Some(JBool(FALSE)),
     Some(JNum(0)), Some(JNum(1)), Some(JStr("")), Some(JStr("yes")),
     Some(JList(<<>>)), Some(JList(<<JNum(1)>>)),
     Some(JObj(EmptyDict)), Some(JObj([a |-> JNum(1)]))}

PayloadOpts ==
    {Absent, Some(JNull), Some(JNum(7)), Some(JStr("x")), Some(JList(<<JNum(1)>>)),
     Some(JObj([task_id |-> JStr("t1"), stream |-> JBool(TRUE)]))}
    \cup {Some(JObj(Field("stream", st))) : st \in StreamOpts}

NonObjectBodies ==
    {JNull, JNum(5), JBool(TRUE), JStr("ping"), JStr("type"), JStr("prototype"),
     JStr("typ"), JList(<<>>), JList(<<JStr("type")>>), JList(<<JStr("prototype")>>)}

\* bodies json.loads rejects: empty, not JSON, a truncated object
GarbageBodies == {Garbage(""), Garbage("ping"), Garbage("{\"type\": \"ping\"")}

AllRequests ==
    {JsonText(Envelope(t, p, a)) : t \in TypeOpts, p \in PayloadOpts, a \in BOOLEAN}
    \cup {JsonText(v) : v \in NonObjectBodies}
    \cup GarbageBodies

\* cards submitted to POST /api/agent_card
Cards ==
    {JObj(EmptyDict),
     JObj([id |-> JStr("agent2"), name |-> JStr("Other Agent")])}

(***************************************************************************)
(* The agent: any request at any time, and the steps of every stream.      *)
(***************************************************************************)
Next ==
    \/ \E raw \in CoreRequests : nreq < MaxRequests /\ a2a_endpoint(raw)
    \/ nreq < MaxRequests /\ get_agent_card
    \/ \E card \in Cards : nreq < MaxRequests /\ register_agent_card(card)
    \/ \E s \in 1..Len(sessions) : stream_start(s)
    \/ \E s \in 1..Len(sessions) : transport_accept(s)
    \/ \E s \in 1..Len(sessions) : timer_fire(s)
    \/ \E s \in 1..Len(sessions) : client_disconnect(s)
    \/ \E s \in 1..Len(sessions) : response_cancelled(s)

Spec == Init /\ [][Next]_vars

(***************************************************************************)
(* The event loop runs every task that is ready: a response that was       *)
(* returned starts iterating its generator, a sleep that was started ends, *)
(* and each frame handed to the transport is taken or refused.  A client   *)
(* may or may not disconnect and a server may or may not cancel before its *)
(* next send, so client_disconnect and response_cancelled carry no         *)
(* fairness.                                                               *)
(***************************************************************************)
Fairness ==
    \A s \in 1..MaxRequests :
        /\ WF_vars(s \in 1..Len(sessions) /\ stream_start(s))
        /\ WF_vars(s \in 1..Len(sessions) /\ transport_accept(s))
        /\ WF_vars(s \in 1..Len(sessions) /\ timer_fire(s))

\* the requests of SpecFair: one request for each generator and one that is
\* answered at once
StreamRequests == {JsonText(A2A_MSG), JsonText(chunk_msg), JsonText(event_msg)}

NextStreams ==
    \/ \E raw \in StreamRequests : nreq < MaxRequests /\ a2a_endpoint(raw)
    \/ \E s \in 1..Len(sessions) : stream_start(s)
    \/ \E s \in 1..Len(sessions) : transport_accept(s)
    \/ \E s \in 1..Len(sessions) : timer_fire(s)
    \/ \E s \in 1..Len(sessions) : client_disconnect(s)
    \/ \E s \in 1..Len(sessions) : response_cancelled(s)

SpecFair == Init /\ [][NextStreams]_vars /\ Fairness

(***************************************************************************)
(* Validation and dispatch alone, over every request body of AllRequests.  *)
(***************************************************************************)
NextDispatch ==
    \E raw \in AllRequests : nreq < MaxDispatch /\ a2a_endpoint(raw)

SpecDispatch == Init /\ [][NextDispatch]_vars

(***************************************************************************)
(* Properties.                                                             *)
(***************************************************************************)
\* the objects of a sequence of frames
Objs(frames) == [j \in 1..Len(frames) |-> frames[j].obj]

IsPrefix(a, b) == Len(a) <= Len(b) /\ \A j \in 1..Len(a) : a[j] = b[j]

Progress(n) == JObj([type |-> JStr("task_progress"), progress |-> JNum(n)])
Chunk(c) == JObj([type |-> JStr("task_chunk"), chunk |-> JStr(c)])
Result(r) == JObj([type |-> JStr("result"), payload |-> JObj([result |-> JStr(r)])])

ExpectedProgressStream ==
    <<Progress(0), Progress(20), Progress(40), Progress(60), Progress(80), Result("done")>>

ExpectedChunkStream ==
    <<Chunk("partial_0"), Chunk("partial_1"), Chunk("partial_2"),
      Result("final from chunk")>>

\* the last request was POST /api/a2a with an accepted envelope
LastEnvelope == last.op = "a2a" /\ IsEnvelope(last.req)

\* payload.stream of the last envelope is the boolean true
LastStreamIsTrue ==
    /\ HasPayload(last.req)
    /\ EnvPayload(last.req).k = "obj"
    /\ "stream" \in DOMAIN EnvPayload(last.req).o
    /\ EnvPayload(last.req).o["stream"] = JBool(TRUE)

\* The session of the last request delivers `expected`: what it has produced
\* and sent so far is a prefix of it, at most one frame is not yet sent, a
\* session still streaming has frames left, and a completed one sent them all.
LastSessionDelivers(gen, expected) ==
    /\ last.kind = "stream"
    /\ last.status = 200
    /\ last.sid \in 1..Len(sessions)
    /\ LET ss == sessions[last.sid]
       IN  /\ ss.gen = gen
           /\ ~ss.disconnected =>
                /\ IsPrefix(Objs(ss.produced), expected)
                /\ IsPrefix(ss.sent, ss.produced)
                /\ ss.status \in {"streaming", "completed"}
                /\ ss.status = "streaming" => Len(ss.sent) < Len(expected)
                /\ ss.status = "completed" => Objs(ss.sent) = expected

\* C1: an accepted task_request envelope with payload.stream = true is
\* answered with a stream that, without a disconnect, consists of the
\* task_progress frames 0, 20, 40, 60, 80 in order, then one result frame
\* {result: "done"}, and nothing more.
C1_ProgressStream ==
    (LastEnvelope /\ EnvType(last.req) = "task_request" /\ LastStreamIsTrue)
        => LastSessionDelivers("stream_task_progress", ExpectedProgressStream)

\* the test's streaming task_request has been answered with all six frames
C1_Witness ==
    /\ last.op = "a2a"
    /\ last.req = JsonText(A2A_MSG)
    /\ last.kind = "stream"
    /\ sessions[last.sid].status = "completed"
    /\ Len(sessions[last.sid].sent) = 6

\* C2: an accepted task_chunk envelope, whatever payload.stream is, is never
\* answered with an echo but with a stream that, without a disconnect,
\* consists of the task_chunk frames partial_0, partial_1, partial_2 in
\* order, then one result frame {result: "final from chunk"}.
C2_ChunkStream ==
    (LastEnvelope /\ EnvType(last.req) = "task_chunk")
        => LastSessionDelivers("chunk_stream", ExpectedChunkStream)

\* a task_chunk with payload.stream = false has been answered with all four frames
C2_Witness ==
    /\ LastEnvelope
    /\ EnvType(last.req) = "task_chunk"
    /\ EnvPayload(last.req) = JObj([stream |-> JBool(FALSE)])
    /\ last.kind = "stream"
    /\ sessions[last.sid].status = "completed"
    /\ Len(sessions[last.sid].sent) = 4

\* the step serves one POST /api/a2a request
A2AStep == nreq' = nreq + 1 /\ last'.op = "a2a"

\* the records of l written by the agent_event handler
AgentEventRecords(l) == SelectSeq(l, LAMBDA r : r.msg = "[agent_event]")

\* the body parsed to an object whose type is missing, null or not a string
TypeInvalid(raw) ==
    /\ raw.k = "json"
    /\ raw.v.k = "obj"
    /\ ("type" \notin DOMAIN raw.v.o \/ raw.v.o["type"].k # "str")

\* C3: a parsed body whose type is missing, null or not a string is answered
\* 400 {status: "error", error: "Missing or invalid 'type' field"}, whatever
\* else is wrong with it, and nothing is dispatched: no stream is started and
\* the only record logged is the error, never an agent_event.
C3_MissingTypeFirst ==
    [][(A2AStep /\ TypeInvalid(last'.req)) =>
            /\ last'.status = 400
            /\ last'.kind = "json"
            /\ last'.body = JObj([status |-> JStr("error"),
                                  error |-> JStr("Missing or invalid 'type' field")])
            /\ last'.sid = 0
            /\ sessions' = sessions
            /\ Len(log') = Len(log) + 1
            /\ log'[Len(log')].level = "error"
            /\ AgentEventRecords(log') = AgentEventRecords(log)]_vars

\* a body with no type and a payload that is not a mapping was answered 400
C3_Witness ==
    /\ last.op = "a2a"
    /\ TypeInvalid(last.req)
    /\ "type" \notin DOMAIN last.req.v.o
    /\ HasPayload(last.req)
    /\ EnvPayload(last.req) = JNull
    /\ last.status = 400

\* C4: a body that cannot be parsed is answered 400 {status: "error",
\* error: "Invalid JSON payload"}; the type check and the dispatcher are not
\* reached: the only record logged is the parse failure and no stream starts.
C4_InvalidJson ==
    [][(A2AStep /\ last'.req.k = "garbage") =>
            /\ last'.status = 400
            /\ last'.kind = "json"
            /\ last'.body = JObj([status |-> JStr("error"),
                                  error |-> JStr("Invalid JSON payload")])
            /\ last'.sid = 0
            /\ sessions' = sessions
            /\ log' = Append(log, LogRecord("error", "Failed to parse JSON", JNull))]_vars

\* a truncated JSON object that names a type was answered 400
C4_Witness ==
    /\ last.op = "a2a"
    /\ last.req = Garbage("{\"type\": \"ping\"")
    /\ last.status = 400
    /\ Len(log) = 1

\* the envelope takes none of the streaming or event branches
EchoCase(raw) ==
    /\ EnvType(raw) \notin {"task_chunk", "agent_event"}
    /\ EnvType(raw) = "task_request" =>
            \/ ~HasPayload(raw)
            \/ /\ EnvPayload(raw).k = "obj"
               /\ \/ "stream" \notin DOMAIN EnvPayload(raw).o
                  \/ EnvPayload(raw).o["stream"] = JBool(FALSE)

\* C5: an accepted envelope of any type other than task_chunk and
\* agent_event (task_request only with payload.stream absent or false) is
\* answered with one JSON object {status: "ok", type: <type>, echo: <the
\* whole envelope as received>}, not a stream.
C5_Echo ==
    (LastEnvelope /\ EchoCase(last.req)) =>
        /\ last.status = 200
        /\ last.kind = "json"
        /\ last.sid = 0
        /\ last.body = JObj([status |-> JStr("ok"),
                             type |-> JStr(EnvType(last.req)),
                             echo |-> last.req.v])

\* a task_request with stream = false, sender and recipient was echoed whole
C5_Witness ==
    /\ LastEnvelope
    /\ EnvType(last.req) = "task_request"
    /\ EnvPayload(last.req) = JObj([stream |-> JBool(FALSE)])
    /\ "sender" \in DOMAIN last.req.v.o
    /\ last.kind = "json"
    /\ last.body.o.echo = last.req.v

\* C6: the agent_event records of the log are exactly the payloads of the
\* accepted agent_event envelopes, one each and in order, and such an
\* envelope is answered at once with {status: "ok", type: "agent_event",
\* event: <payload>}.
C6_EventLoggedOnce ==
    /\ Len(AgentEventRecords(log)) = Len(events_in)
    /\ \A j \in 1..Len(events_in) : AgentEventRecords(log)[j].data = events_in[j]
    /\ (LastEnvelope /\ EnvType(last.req) = "agent_event") =>
            /\ last.status = 200
            /\ last.kind = "json"
            /\ last.sid = 0
            /\ last.body = JObj([status |-> JStr("ok"),
                                 type |-> JStr("agent_event"),
                                 event |-> EnvPayload(last.req)])

\* an agent_event was acknowledged and logged once while a stream ran to its end
C6_Witness ==
    /\ LastEnvelope
    /\ EnvType(last.req) = "agent_event"
    /\ Len(AgentEventRecords(log)) = 1
    /\ Len(sessions) = 1
    /\ sessions[1].status = "completed"

\* C7: a task_request envelope whose payload is absent or a mapping starts
\* the progress stream if and only if payload.stream is the boolean true,
\* and is echoed otherwise.
C7_StreamIffTrue ==
    (/\ LastEnvelope
     /\ EnvType(last.req) = "task_request"
     /\ EnvPayload(last.req).k = "obj") =>
        IF LastStreamIsTrue
        THEN last.kind = "stream"
        ELSE /\ last.kind = "json"
             /\ last.body = JObj([status |-> JStr("ok"),
                                  type |-> JStr("task_request"),
                                  echo |-> last.req.v])

IsTerminal(frame) == frame.obj.o["type"].s \in {"result", "error"}

\* C9: in every session a terminal frame (result or error) is the last frame
\* produced: there is at most one and no frame follows it.
C9_OneTerminalFrame ==
    \A s \in 1..Len(sessions) :
        \A j \in 1..Len(sessions[s].produced) :
            IsTerminal(sessions[s].produced[j]) => j = Len(sessions[s].produced)

\* two sessions have each sent their terminal frame
C9_Witness ==
    /\ Len(sessions) = 2
    /\ \A s \in 1..2 :
        /\ sessions[s].status = "completed"
        /\ IsTerminal(sessions[s].sent[Len(sessions[s].sent)])

\* C10: the agent's card never changes: GET /api/agent_card always answers
\* the card the agent started with, and POST /api/agent_card answers
\* {status: "ok", card: <submitted body>} and keeps nothing.
C10_CardUnchanged ==
    /\ AGENT_CARD = AgentCardLiteral
    /\ last.op = "get_agent_card" =>
            (last.status = 200 /\ last.body = AgentCardLiteral)
    /\ last.op = "register_agent_card" =>
            (last.status = 200
             /\ last.body = JObj([status |-> JStr("ok"), card |-> last.req]))

\* a GET was served after another request
C10_Witness ==
    /\ last.op = "get_agent_card"
    /\ nreq = 2
    /\ last.body = AgentCardLiteral

\* the same request with payload = {} added
WithEmptyPayload(raw) ==
    JsonText(JObj(("payload" :> JObj(EmptyDict)) @@ raw.v.o))

\* C11: an envelope without a payload field is dispatched exactly as the
\* same envelope with payload = {}: same status, same kind of response, same
\* generator, same log records; task_request and any other type are echoed
\* (each echo being the envelope as received), task_chunk streams and
\* agent_event is acknowledged with event = {}.
C11_AbsentPayloadIsEmpty ==
    (LastEnvelope /\ ~HasPayload(last.req)) =>
        LET twin == a2a_response(WithEmptyPayload(last.req))
            t    == EnvType(last.req)
        IN  /\ last.status = twin.resp.status
            /\ last.kind = twin.resp.kind
            /\ last.kind = "stream" <=> t = "task_chunk"
            /\ last.kind = "stream" =>
                    /\ twin.resp.start = "chunk_stream"
                    /\ sessions[last.sid].gen = "chunk_stream"
            /\ t = "agent_event" =>
                    /\ last.body = twin.resp.body
                    /\ last.body = JObj([status |-> JStr("ok"),
                                         type |-> JStr("agent_event"),
                                         event |-> JObj(EmptyDict)])
                    /\ twin.logs = <<log[Len(log)]>>
            /\ t \notin {"agent_event", "task_chunk"} =>
                    /\ last.kind = "json"
                    /\ last.body.o.echo = last.req.v
                    /\ twin.resp.body.o.echo = WithEmptyPayload(last.req).v
                    /\ last.body.o.status = twin.resp.body.o.status
                    /\ last.body.o["type"] = twin.resp.body.o["type"]
                    /\ twin.logs = <<>>

\* a task_request without payload was echoed
C11_Witness ==
    /\ LastEnvelope
    /\ ~HasPayload(last.req)
    /\ EnvType(last.req) = "task_request"
    /\ last.status = 200
    /\ last.kind = "json"
    /\ last.body.o.echo = last.req.v

\* C12: every frame of every stream is one JSON object in JSON encoding
\* (double-quoted keys and strings) followed by a newline.
C12_FramesAreJsonLines ==
    \A s \in 1..Len(sessions) :
        \A j \in 1..Len(sessions[s].produced) :
            /\ sessions[s].produced[j].quote = "double"
            /\ sessions[s].produced[j].newline
            /\ sessions[s].produced[j].obj.k = "obj"

\* C13: every POST /api/a2a request ends in 400 with one of the two error
\* bodies, in 200 with one JSON object or in 200 with a stream; none ends
\* in an exception that leaves the handler.
C13_DefinedOutcome ==
    last.op = "a2a" =>
        \/ /\ last.status = 400
           /\ last.kind = "json"
           /\ last.body \in
                {JObj([status |-> JStr("error"), error |-> JStr("Invalid JSON payload")]),
                 JObj([status |-> JStr("error"),
                       error |-> JStr("Missing or invalid 'type' field")])}
        \/ /\ last.status = 200
           /\ last.kind = "json"
           /\ last.body.k = "obj"
        \/ /\ last.status = 200
           /\ last.kind = "stream"
           /\ last.sid \in 1..Len(sessions)

\* C19: an envelope that is dispatched (answered 200) has a type that is a
\* non-empty string.
C19_TypeNonEmpty ==
    (last.op = "a2a" /\ last.status = 200) =>
        (IsEnvelope(last.req) /\ EnvType(last.req) # "")

\* the handler the routing rules select for an envelope, first match wins
RuleHandler(raw) ==
    IF /\ EnvType(raw) = "task_request"
       /\ EnvPayload(raw).k = "obj"
       /\ "stream" \in DOMAIN EnvPayload(raw).o
       /\ EnvPayload(raw).o["stream"] = JBool(TRUE)
    THEN "progress_stream"
    ELSE IF EnvType(raw) = "task_chunk" THEN "chunk_stream"
    ELSE IF EnvType(raw) = "agent_event" THEN "agent_event"
    ELSE "echo"

\* the handler that produced response l, given the sessions ss
HandlerOf(l, ss) ==
    IF l.kind = "stream"
    THEN IF ss[l.sid].gen = "stream_task_progress"
         THEN "progress_stream" ELSE "chunk_stream"
    ELSE IF l.kind = "json" /\ l.status = 200 /\ "event" \in DOMAIN l.body.o
    THEN "agent_event"
    ELSE IF l.kind = "json" /\ l.status = 200 /\ "echo" \in DOMAIN l.body.o
    THEN "echo"
    ELSE "none"

\* the state of the request answered by l: an immediate response is complete
\* when it is returned, a streamed one follows its session
RequestState(l, ss) ==
    IF l.kind = "json" THEN "COMPLETED"
    ELSE IF l.kind = "stream"
    THEN CASE ss[l.sid].status = "streaming" -> "STREAMING"
           [] ss[l.sid].status = "completed" -> "COMPLETED"
           [] ss[l.sid].status = "cancelled" -> "CANCELLED"
    ELSE "FAILED"

\* C14: a validated envelope is answered by exactly one handler, the one the
\* routing rules select; an immediate handler completes without starting a
\* session, a streaming handler starts one session in STREAMING; a session
\* only moves from STREAMING to COMPLETED or CANCELLED and stays there.
C14_OneHandlerAndStates ==
    [][/\ (A2AStep /\ IsEnvelope(last'.req)) =>
            /\ HandlerOf(last', sessions') = RuleHandler(last'.req)
            /\ RuleHandler(last'.req) \in {"agent_event", "echo"} =>
                    /\ sessions' = sessions
                    /\ RequestState(last', sessions') = "COMPLETED"
            /\ RuleHandler(last'.req) \in {"progress_stream", "chunk_stream"} =>
                    /\ Len(sessions') = Len(sessions) + 1
                    /\ RequestState(last', sessions') = "STREAMING"
       /\ \A s \in 1..Len(sessions) :
            sessions'[s].status # sessions[s].status =>
                /\ sessions[s].status = "streaming"
                /\ sessions'[s].status \in {"completed", "cancelled"}]_vars

\* C15: a session has at most one frame produced and not yet accepted; a
\* frame is produced one at a time, only when every earlier frame has been
\* accepted, and every frame after the first, the result frame included, is
\* produced by the step that ends the pacing delay pending since the frame
\* before it was accepted.
C15_PacedOneInFlight ==
    [][/\ \A s \in 1..Len(sessions') :
            Len(sessions'[s].produced) - Len(sessions'[s].sent) \in {0, 1}
       /\ \A s \in 1..Len(sessions) :
            sessions'[s].produced # sessions[s].produced =>
                /\ Len(sessions'[s].produced) = Len(sessions[s].produced) + 1
                /\ sessions[s].sent = sessions[s].produced
                /\ sessions'[s].sent = sessions[s].sent
                /\ sessions[s].produced # <<>> =>
                        /\ sessions[s].pc = "sleep"
                        /\ sessions[s].timer
                        /\ ~sessions'[s].timer]_vars

\* the result frame of a progress stream is in flight after five accepted frames
C15_Witness ==
    \E s \in 1..Len(sessions) :
        /\ sessions[s].gen = "stream_task_progress"
        /\ sessions[s].pc = "yield_result"
        /\ Len(sessions[s].produced) = ProgressFrames + 1
        /\ Len(sessions[s].sent) = ProgressFrames
        /\ IsTerminal(sessions[s].produced[ProgressFrames + 1])

\* the frames a generator delivers when it runs alone and undisturbed
ExpectedStream(gen) ==
    IF gen = "stream_task_progress" THEN ExpectedProgressStream ELSE ExpectedChunkStream

\* a step of session s itself
SessionStep(s) == stream_start(s) \/ transport_accept(s) \/ timer_fire(s)

\* C16: with several sessions and immediate requests interleaved, the frames
\* each session has delivered are a prefix of the sequence it delivers alone
\* (all of it once completed) and are only ever extended; a step changes at
\* most one session, so cancelling one leaves every other as it was; every
\* session still streaming can take its own next step whatever the others
\* are doing, and a request can be answered while a session sleeps.
C16_SessionsIndependent ==
    /\ [](/\ \A s \in 1..Len(sessions) :
                sessions[s].status = "streaming" => ENABLED SessionStep(s)
          /\ (\E s \in 1..Len(sessions) :
                    sessions[s].status = "streaming" /\ sessions[s].pc = "sleep") =>
                ENABLED a2a_endpoint(JsonText(event_msg)))
    /\ [][/\ \A s \in 1..Len(sessions') :
                /\ IsPrefix(Objs(sessions'[s].sent), ExpectedStream(sessions'[s].gen))
                /\ IsPrefix(sessions'[s].sent, sessions'[s].produced)
                /\ sessions'[s].status = "completed" =>
                        Objs(sessions'[s].sent) = ExpectedStream(sessions'[s].gen)
          /\ \A s \in 1..Len(sessions) :
                /\ IsPrefix(sessions[s].sent, sessions'[s].sent)
                /\ sessions'[s] # sessions[s] =>
                        \A t \in 1..Len(sessions) : t # s => sessions'[t] = sessions[t]]_vars

\* one session was cancelled part-way, another ran to its last frame
C16_Witness ==
    \E s, t \in 1..Len(sessions) :
        /\ s # t
        /\ sessions[s].status = "cancelled"
        /\ Len(sessions[s].sent) \in 1..2
        /\ sessions[t].status = "completed"
        /\ Objs(sessions[t].sent) = ExpectedStream(sessions[t].gen)

\* a session never has more frames than its generator yields: 6 for the
\* progress stream, 4 for the chunk stream; a completed one sent them all,
\* the result frame last
FramesBounded ==
    \A s \in 1..Len(sessions) :
        /\ Len(sessions[s].produced) <=
                (IF sessions[s].gen = "stream_task_progress" THEN 6 ELSE 4)
        /\ sessions[s].status = "completed" =>
                /\ sessions[s].sent = sessions[s].produced
                /\ IsTerminal(sessions[s].sent[Len(sessions[s].sent)])

SessionEnded(s) ==
    /\ s \in 1..Len(sessions)
    /\ sessions[s].status \in {"completed", "cancelled"}

\* C17: with the timer, the start of iteration and the transport scheduled
\* fairly, every session that is started is eventually completed, its result
\* frame sent, or cancelled after a disconnect, and stays so: from some
\* point on no started session is STREAMING; and a session emits at most 6
\* frames (progress stream) or 4 frames (chunk stream).
C17_EverySessionEnds ==
    /\ []FramesBounded
    /\ [][\A s \in 1..Len(sessions) : SessionEnded(s) => SessionEnded(s)']_vars
    /\ \A s \in 1..MaxRequests : <>[](s \in 1..Len(sessions) => SessionEnded(s))

\* a progress stream and a chunk stream have both run to completion
C17_Witness ==
    \E s, t \in 1..Len(sessions) :
        /\ sessions[s].gen = "stream_task_progress"
        /\ sessions[s].status = "completed"
        /\ Len(sessions[s].sent) = 6
        /\ sessions[t].gen = "chunk_stream"
        /\ sessions[t].status = "completed"
        /\ Len(sessions[t].sent) = 4

====
